---- MODULE Spec2Model ----
(***************************************************************************)
(* Model of the VRM Factory conversion service (vrm-factory/server.py) and *)
(* of the Blender stage scripts it runs (vrm-factory/scripts/0?_*.py).     *)
(*                                                                         *)
(* File names are sequences of one-character strings, so that Path.stem,   *)
(* str.replace and Path.glob are computed character by character as the    *)
(* Python library computes them.  The temp directory is a function from    *)
(* file name to file content.                                              *)
(***************************************************************************)
EXTENDS Integers, Sequences, FiniteSets, TLC

(***************************************************************************)
(* Bounds of the model.                                                    *)
(***************************************************************************)
\* number of conversion requests served
MaxReq == 2
\* number of standalone stage runs applied in a row to one scene
MaxRuns == 3

(***************************************************************************)
(* File names.                                                             *)
(***************************************************************************)
DOT_GLB == <<".", "g", "l", "b">>
DOT_PNG == <<".", "p", "n", "g">>
DOT_JSON == <<".", "j", "s", "o", "n">>
DOT_VRM == <<".", "v", "r", "m">>
SUF_RIGGED == <<"_", "r", "i", "g", "g", "e", "d">>
SUF_FACE == <<"_", "f", "a", "c", "e">>

\* the file names a client uploads in this model
UploadNames ==
    { <<"a">> \o DOT_GLB,
      <<"a">> \o SUF_RIGGED \o DOT_GLB,
      <<"[", "a", "]">> \o DOT_GLB,
      <<"a">> \o DOT_VRM \o DOT_GLB }

\* index of the last "." of a name, 0 when there is none (str.rfind)
RFindDot(name) ==
    LET dots == {i \in 1..Len(name) : name[i] = "."}
    IN  IF dots = {} THEN 0 ELSE CHOOSE i \in dots : \A j \in dots : j <= i

\* pathlib.PurePath.stem: the name without its last suffix; a leading or a
\* trailing dot starts no suffix
stem(name) ==
    LET i == RFindDot(name)
    IN  IF 1 < i /\ i < Len(name) THEN SubSeq(name, 1, i - 1) ELSE name

\* TRUE when pre is a prefix of s
StartsWith(s, pre) ==
    Len(pre) <= Len(s) /\ SubSeq(s, 1, Len(pre)) = pre

\* str.replace(old, new): every non-overlapping occurrence, left to right
RECURSIVE replace(_, _, _)
replace(s, old, new) ==
    IF s = <<>> THEN <<>>
    ELSE IF StartsWith(s, old)
         THEN new \o replace(SubSeq(s, Len(old) + 1, Len(s)), old, new)
         ELSE <<Head(s)>> \o replace(Tail(s), old, new)

\* fnmatch: position of the "]" closing the bracket expression that opens at
\* pat[1], 0 when the "[" is not closed (it is then an ordinary character)
ClosingBracket(pat) ==
    LET first == IF Len(pat) >= 2 /\ pat[2] = "!" THEN 3 ELSE 2
        from == IF Len(pat) >= first /\ pat[first] = "]" THEN first + 1 ELSE first
        cands == {j \in from..Len(pat) : pat[j] = "]"}
    IN  IF cands = {} THEN 0 ELSE CHOOSE j \in cands : \A k \in cands : j <= k

\* fnmatch.fnmatchcase(s, pat) as Path.glob applies it to one file name
RECURSIVE fnmatch(_, _)
fnmatch(s, pat) ==
    IF pat = <<>> THEN s = <<>>
    ELSE IF Head(pat) = "*"
         THEN fnmatch(s, Tail(pat)) \/ (s # <<>> /\ fnmatch(Tail(s), pat))
    ELSE IF Head(pat) = "?"
         THEN s # <<>> /\ fnmatch(Tail(s), Tail(pat))
    ELSE IF Head(pat) = "[" /\ ClosingBracket(pat) # 0
         THEN LET j == ClosingBracket(pat)
                  neg == pat[2] = "!"
                  members == {pat[k] : k \in (IF neg THEN 3 ELSE 2)..(j - 1)}
              IN  /\ s # <<>>
                  /\ (Head(s) \in members) # neg
                  /\ fnmatch(Tail(s), SubSeq(pat, j + 1, Len(pat)))
    ELSE s # <<>> /\ Head(s) = Head(pat) /\ fnmatch(Tail(s), Tail(pat))

(***************************************************************************)
(* Scenes.  A scene is the sequence of its objects (bpy.data.objects); an  *)
(* object has a type, the index of its parent (0: none) and, for a mesh,   *)
(* the names of its shape keys in key_blocks order (<<>>: no shape keys).  *)
(* The glTF export/import pair carries this structure from one stage to    *)
(* the next.                                                               *)
(***************************************************************************)
MeshObj(parent, keys) == [type |-> "MESH", parent |-> parent, keys |-> keys]
ArmatureObj == [type |-> "ARMATURE", parent |-> 0, keys |-> <<>>]

Range(seq) == {seq[i] : i \in 1..Len(seq)}

\* [o for o in bpy.data.objects if o.type == T], as indices in scene order
ObjectsOfType(objs, T) == {i \in 1..Len(objs) : objs[i].type = T}
Min(S) == CHOOSE i \in S : \A j \in S : i <= j

\* number of skeletons a scene carries
NumArmatures(objs) == Cardinality(ObjectsOfType(objs, "ARMATURE"))

\* mesh.parent and mesh.parent.type == 'ARMATURE'
HasArmatureParent(objs, m) ==
    objs[m].parent # 0 /\ objs[objs[m].parent].type = "ARMATURE"

\* result of running a script on a scene: exit code and the exported scene
\* (exported = FALSE: the script wrote nothing)
SceneResult(code, exported, objs) ==
    [code |-> code, exported |-> exported, objects |-> objs]

\* 02_smart_rig.py on the imported scene; bind_ok is the outcome of
\* bpy.ops.object.parent_set(type='ARMATURE_AUTO')
rig_scene(objs, bind_ok) ==
    LET meshes == ObjectsOfType(objs, "MESH")
    IN  IF meshes = {} THEN SceneResult(1, FALSE, objs)
        ELSE LET mesh == Min(meshes)
                 withRig == Append(objs, ArmatureObj)
                 rig == Len(withRig)
             IN  IF HasArmatureParent(objs, mesh)
                 THEN SceneResult(0, TRUE, objs)
                 ELSE IF bind_ok
                      THEN SceneResult(0, TRUE,
                               [withRig EXCEPT ![mesh].parent = rig])
                      ELSE SceneResult(0, TRUE, withRig)

\* VRM standard blendshape names (Visemes + Expressions)
vrm_shapes ==
    << "Basis", "aa", "ih", "ou", "ee", "oh",
       "neutral", "joy", "angry", "sorrow", "fun",
       "blink", "blink_l", "blink_r" >>

\* mesh.shape_key_add(name=...): Blender appends the key and makes its name
\* unique among the mesh's keys with a numeric suffix
shape_key_add(keys, name) ==
    IF name \notin Range(keys) THEN Append(keys, name)
    ELSE IF (name \o ".001") \notin Range(keys) THEN Append(keys, name \o ".001")
    ELSE Append(keys, name \o ".002")

\* the loop body without the membership test
add_key_unconditionally(keys, shape_name) == shape_key_add(keys, shape_name)

\* "if shape_name not in mesh.data.shape_keys.key_blocks: shape_key_add"
add_missing_key(keys, shape_name) ==
    IF shape_name \notin Range(keys) THEN shape_key_add(keys, shape_name) ELSE keys

\* the "for shape_name in vrm_shapes" loop, from position i on
RECURSIVE add_missing_shape_keys(_, _)
add_missing_shape_keys(keys, i) ==
    IF i > Len(vrm_shapes) THEN keys
    ELSE add_missing_shape_keys(add_missing_key(keys, vrm_shapes[i]), i + 1)

\* "if not mesh.data.shape_keys: mesh.shape_key_add(name='Basis')"
ensure_shape_keys(keys) ==
    IF keys = <<>> THEN shape_key_add(keys, "Basis") ELSE keys

\* 03_face_setup.py without the exit on an empty mesh list
face_scene_without_mesh_check(objs) ==
    LET meshes == ObjectsOfType(objs, "MESH")
    IN  IF meshes = {} THEN SceneResult(0, TRUE, objs)
        ELSE LET mesh == Min(meshes)
                 keys == add_missing_shape_keys(ensure_shape_keys(objs[mesh].keys), 1)
             IN  SceneResult(0, TRUE, [objs EXCEPT ![mesh].keys = keys])

\* 03_face_setup.py on the imported scene
face_scene(objs) ==
    LET meshes == ObjectsOfType(objs, "MESH")
    IN  IF meshes = {} THEN SceneResult(1, FALSE, objs)
        ELSE LET mesh == Min(meshes)
                 keys == add_missing_shape_keys(ensure_shape_keys(objs[mesh].keys), 1)
             IN  SceneResult(0, TRUE, [objs EXCEPT ![mesh].keys = keys])

(***************************************************************************)
(* The temp directory and the stage processes acting on it.                *)
(***************************************************************************)
GlbFile(objs) == [fmt |-> "glb", objects |-> objs]
VrmFile(objs) == [fmt |-> "vrm", objects |-> objs]
PngFile == [fmt |-> "png", objects |-> <<>>]
JsonFile == [fmt |-> "json", objects |-> <<>>]

\* open(path, "w") / an exporter writing path: create or overwrite
WriteFile(dir, path, content) ==
    [q \in DOMAIN dir \cup {path} |-> IF q = path THEN content ELSE dir[q]]

\* file_path.unlink() for every path of a set
Unlink(dir, paths) == [q \in DOMAIN dir \ paths |-> dir[q]]

\* os.rename(src, dst) of an existing src: dst is replaced, src disappears
Rename(dir, src, dst) ==
    IF src = dst THEN dir
    ELSE [q \in (DOMAIN dir \ {src}) \cup {dst} |-> IF q = dst THEN dir[src] ELSE dir[q]]

\* what one stage process did: exit code, directory afterwards, the paths it
\* read, wrote and removed, and whether the export fallback ran
ProcResult(code, dir, reads, writes, removes, fallback) ==
    [code |-> code, dir |-> dir, reads |-> reads, writes |-> writes,
     removes |-> removes, fallback |-> fallback]

\* exit codes of blender after an exception escapes the script: blender exits
\* 0 unless --python-exit-code is configured in the installation
PythonExitCodes == {0, 1}

\* scripts/01_render_snap.py input_glb output_img
render_snap(dir, input_glb, output_img, exc) ==
    IF input_glb \notin DOMAIN dir
    THEN ProcResult(exc, dir, {input_glb}, {}, {}, FALSE)
    ELSE ProcResult(0, WriteFile(dir, output_img, PngFile),
                    {input_glb}, {output_img}, {}, FALSE)

\* vision_brain.py img_in json_out: an unreadable image gives an empty report
vision_brain(dir, img_in, json_out) ==
    ProcResult(0, WriteFile(dir, json_out, JsonFile), {img_in}, {json_out}, {}, FALSE)

\* the scene held by a file of the directory, <<>> when the file is absent
SceneAt(dir, path) == IF path \in DOMAIN dir THEN dir[path].objects ELSE <<>>

\* the frame shared by 02_smart_rig.py and 03_face_setup.py: load the json,
\* import the input, work on the scene (r: the outcome of that work on the
\* imported scene), export to the output
SceneScript(dir, input_glb, json_data, output_glb, exc, r) ==
    IF json_data \notin DOMAIN dir
    THEN ProcResult(exc, dir, {json_data}, {}, {}, FALSE)
    ELSE IF input_glb \notin DOMAIN dir
    THEN ProcResult(exc, dir, {json_data, input_glb}, {}, {}, FALSE)
    ELSE IF r.exported
    THEN ProcResult(r.code, WriteFile(dir, output_glb, GlbFile(r.objects)),
                    {json_data, input_glb}, {output_glb}, {}, FALSE)
    ELSE ProcResult(r.code, dir, {json_data, input_glb}, {}, {}, FALSE)

\* scripts/02_smart_rig.py input_glb json_data output_glb
smart_rig(dir, input_glb, json_data, output_glb, bind_ok, exc) ==
    SceneScript(dir, input_glb, json_data, output_glb, exc,
                rig_scene(SceneAt(dir, input_glb), bind_ok))

\* scripts/03_face_setup.py input_glb json_data output_glb
face_setup(dir, input_glb, json_data, output_glb, exc) ==
    SceneScript(dir, input_glb, json_data, output_glb, exc,
                face_scene(SceneAt(dir, input_glb)))

\* the avatar exporter addon: not installed; exports; raises; or its operator
\* returns {'CANCELLED'} without raising and without writing the file
Addons == {"absent", "ok", "throws", "cancelled"}

\* output_path.replace('.vrm', '.glb')
output_path_glb(output_path) == replace(output_path, DOT_VRM, DOT_GLB)

\* the fallback without the os.rename
export_fallback_without_rename(dir, input_path, output_path) ==
    LET glb == output_path_glb(output_path)
    IN  ProcResult(0, WriteFile(dir, glb, GlbFile(dir[input_path].objects)),
                   {input_path}, {glb}, {}, TRUE)

\* the fallback of 04_export_vrm.py: generic export, then os.rename
export_fallback(dir, input_path, output_path) ==
    LET glb == output_path_glb(output_path)
        exported == WriteFile(dir, glb, GlbFile(dir[input_path].objects))
    IN  ProcResult(0, Rename(exported, glb, output_path),
                   {input_path}, {glb, output_path}, {glb} \ {output_path}, TRUE)

\* scripts/04_export_vrm.py input_path output_path
export_vrm(dir, input_path, output_path, addon, exc) ==
    IF input_path \notin DOMAIN dir
    THEN ProcResult(exc, dir, {input_path}, {}, {}, FALSE)
    ELSE IF addon = "ok"
    THEN ProcResult(0, WriteFile(dir, output_path, VrmFile(dir[input_path].objects)),
                    {input_path}, {output_path}, {}, FALSE)
    ELSE IF addon = "cancelled"
    THEN ProcResult(0, dir, {input_path}, {}, {}, FALSE)
    ELSE export_fallback(dir, input_path, output_path)

\* a stage process killed before it wrote anything (non-zero exit)
Crashed(dir, reads) == ProcResult(1, dir, reads, {}, {}, FALSE)

(***************************************************************************)
(* The server.  Every handler is a coroutine without an await and the      *)
(* stage processes are started with the blocking subprocess.run, so the    *)
(* event loop of uvicorn.run(app) serves one request to its end before it  *)
(* takes the next: one conversion is in flight at a time, and a cleanup    *)
(* call runs between conversions.                                          *)
(***************************************************************************)
VARIABLES
    files,         \* TEMP_DIR: file name -> content
    pc,            \* state of the conversion in flight (orchestrator state machine)
    base,          \* base_name of the conversion in flight
    resp,          \* response body of the conversion in flight, or NoResponse
    produced,      \* paths written by the upload and the stages that have exited
    last,          \* what the last stage process (or the upload) did
    served,        \* base names of the conversions served before this one
    nreq,          \* number of conversion requests received
    cleanup_resp,  \* status of the response of the last cleanup call
    scene,         \* single stage calls: number of the file holding the current scene
    runs           \* single stage calls: the calls made so far

vars == <<files, pc, base, resp, produced, last, served, nreq, cleanup_resp, scene, runs>>
stageVars == <<scene, runs>>

EmptyScene == <<>>
PlainMesh == <<MeshObj(0, <<>>)>>
RiggedMesh == <<ArmatureObj, MeshObj(1, <<>>)>>
\* the scenes a client uploads in this model
UploadScenes == {EmptyScene, PlainMesh}

\* the artifact paths of convert_to_vrm for one base name
input_path(B) == B \o DOT_GLB
img_path(B) == B \o DOT_PNG
json_path(B) == B \o DOT_JSON
rigged_path(B) == B \o SUF_RIGGED \o DOT_GLB
face_path(B) == B \o SUF_FACE \o DOT_GLB
final_vrm(B) == B \o DOT_VRM

ArtifactSet(B) ==
    {input_path(B), img_path(B), json_path(B), rigged_path(B), face_path(B), final_vrm(B)}

NoResponse == [status |-> "none"]
ErrorResponse == [status |-> "error"]
SuccessResponse(B) == [status |-> "success", vrm_filename |-> final_vrm(B)]

LogEntry(stage, res) ==
    [stage |-> stage, code |-> res.code, reads |-> res.reads,
     writes |-> res.writes, removes |-> res.removes, fallback |-> res.fallback]
NoEntry ==
    [stage |-> "none", code |-> 0, reads |-> {}, writes |-> {}, removes |-> {},
     fallback |-> FALSE]

\* no conversion is in flight
Quiescent == pc \in {"Idle", "Success", "Failed"}

\* run_blender without the check of the return code
run_blender_ignores_exit(res) == FALSE

\* run_blender: "if result.returncode != 0: raise Exception"
run_blender(res) == res.code # 0

\* subprocess.run(..., check=True) raises CalledProcessError on a non-zero exit
check_true(res) == res.code # 0

\* where the handler goes when the call of a stage returns or raises: an
\* exception reaches "except Exception", which returns the error response
AfterStage(raised, next) == IF raised THEN "Failed" ELSE next

\* bookkeeping common to the five stages: the process has exited with res
StageExit(stage, res, raised, next) ==
    /\ files' = res.dir
    /\ last' = LogEntry(stage, res)
    /\ produced' = produced \cup last.writes
    /\ pc' = AfterStage(raised, next)
    /\ resp' = IF raised THEN ErrorResponse ELSE resp
    /\ UNCHANGED <<base, served, nreq, cleanup_resp, stageVars>>

\* convert_to_vrm, up to the saved upload
Upload(filename, objs) ==
    /\ Quiescent
    /\ nreq < MaxReq
    /\ nreq' = nreq + 1
    /\ LET B == stem(filename)
           res == ProcResult(0, WriteFile(files, input_path(B), GlbFile(objs)),
                             {}, {input_path(B)}, {}, FALSE)
       IN  /\ base' = B
           /\ files' = res.dir
           /\ last' = LogEntry("upload", res)
           /\ produced' = {}
           /\ pc' = "Uploaded"
           /\ resp' = NoResponse
           /\ served' = IF pc = "Idle" THEN served ELSE served \cup {base}
    /\ UNCHANGED <<cleanup_resp, stageVars>>

\* Step 1: Take Snapshot
Render(crash, exc) ==
    /\ pc = "Uploaded"
    /\ LET res == IF crash THEN Crashed(files, {input_path(base)})
                  ELSE render_snap(files, input_path(base), img_path(base), exc)
       IN  StageExit("render", res, run_blender(res), "Rendered")

\* Step 2: Vision Analysis
Vision(crash) ==
    /\ pc = "Rendered"
    /\ LET res == IF crash THEN Crashed(files, {img_path(base)})
                  ELSE vision_brain(files, img_path(base), json_path(base))
       IN  StageExit("vision", res, check_true(res), "Analyzed")

\* Step 3: Smart Rigging
Rigging(crash, bind_ok, exc) ==
    /\ pc = "Analyzed"
    /\ LET res == IF crash THEN Crashed(files, {input_path(base), json_path(base)})
                  ELSE smart_rig(files, input_path(base), json_path(base),
                                 rigged_path(base), bind_ok, exc)
       IN  StageExit("rigging", res, run_blender(res), "Rigged")

\* Step 4: Face Setup
FaceSetup(crash, exc) ==
    /\ pc = "Rigged"
    /\ LET res == IF crash THEN Crashed(files, {rigged_path(base), json_path(base)})
                  ELSE face_setup(files, rigged_path(base), json_path(base),
                                  face_path(base), exc)
       IN  StageExit("face", res, run_blender(res), "FaceReady")

\* Step 5: VRM Export
Export(crash, addon, exc) ==
    /\ pc = "FaceReady"
    /\ LET res == IF crash THEN Crashed(files, {face_path(base)})
                  ELSE export_vrm(files, face_path(base), final_vrm(base), addon, exc)
       IN  StageExit("export", res, run_blender(res), "Exported")

\* the handler without the existence check of the final file
final_vrm_exists_unchecked(dir, B) == TRUE

\* final_vrm.exists()
final_vrm_exists(dir, B) == final_vrm(B) \in DOMAIN dir

\* "if not final_vrm.exists(): raise", else the success response
CheckFinal ==
    /\ pc = "Exported"
    /\ pc' = AfterStage(~final_vrm_exists(files, base), "Success")
    /\ resp' = IF final_vrm_exists(files, base)
               THEN SuccessResponse(base) ELSE ErrorResponse
    /\ produced' = produced \cup last.writes
    /\ last' = LogEntry("check", ProcResult(0, files, {final_vrm(base)}, {}, {}, FALSE))
    /\ UNCHANGED <<files, base, served, nreq, cleanup_resp, stageVars>>

\* the three glob patterns of cleanup_file
patterns(B) ==
    {B \o <<".", "*">>, B \o SUF_RIGGED \o <<".", "*">>, B \o SUF_FACE \o <<".", "*">>}

\* TEMP_DIR.glob(pattern) over all patterns
Globbed(dir, B) == {f \in DOMAIN dir : \E pat \in patterns(B) : fnmatch(f, pat)}

\* the file names cleanup is called with in this model: the final file names
CleanupNames == {final_vrm(stem(n)) : n \in UploadNames}

\* DELETE /cleanup/{filename}
cleanup_file(filename) ==
    /\ Quiescent
    /\ files' = Unlink(files, Globbed(files, stem(filename)))
    /\ cleanup_resp' = "success"
    /\ UNCHANGED <<pc, base, resp, produced, last, served, nreq, stageVars>>

Init ==
    /\ files = <<>>
    /\ pc = "Idle"
    /\ base = <<>>
    /\ resp = NoResponse
    /\ produced = {}
    /\ last = NoEntry
    /\ served = {}
    /\ nreq = 0
    /\ cleanup_resp = "none"
    /\ scene = 0
    /\ runs = <<>>

Next ==
    \/ \E filename \in UploadNames, objs \in UploadScenes : Upload(filename, objs)
    \/ \E crash \in BOOLEAN, exc \in PythonExitCodes : Render(crash, exc)
    \/ \E crash \in BOOLEAN : Vision(crash)
    \/ \E crash \in BOOLEAN, bind_ok \in BOOLEAN, exc \in PythonExitCodes :
          Rigging(crash, bind_ok, exc)
    \/ \E crash \in BOOLEAN, exc \in PythonExitCodes : FaceSetup(crash, exc)
    \/ \E crash \in BOOLEAN, addon \in Addons, exc \in PythonExitCodes :
          Export(crash, addon, exc)
    \/ CheckFinal
    \/ \E filename \in CleanupNames : cleanup_file(filename)

Spec == Init /\ [][Next]_vars

(***************************************************************************)
(* Single stage calls: the handler's call of the rigging or the face-setup *)
(* script on a scene file of a scratch directory, each call reading the    *)
(* file the last successful call wrote.                                    *)
(***************************************************************************)
StagePath(k) == <<ToString(k)>> \o DOT_GLB
StageJson == <<"0">> \o DOT_JSON

\* the scenes the stage calls start from in this model
StageScenes ==
    { EmptyScene,
      <<ArmatureObj>>,
      PlainMesh,
      RiggedMesh,
      <<ArmatureObj, MeshObj(0, <<>>)>>,
      <<MeshObj(0, <<"Basis">>), ArmatureObj, MeshObj(2, <<>>)>>,
      <<MeshObj(0, <<"Basis", "aa", "smile">>)>>,
      <<MeshObj(0, <<"Key 1", "blink", "joy">>)>>,
      <<ArmatureObj, MeshObj(1, vrm_shapes)>> }

\* bookkeeping of a stage call that read file number scene and was asked to
\* write file number k
StageCall(stage, k, res, raised, next) ==
    /\ files' = res.dir
    /\ runs' = Append(runs,
                 [stage |-> stage,
                  input |-> SceneAt(files, StagePath(scene)),
                  code |-> res.code,
                  wrote |-> res.dir # files,
                  output |-> SceneAt(res.dir, StagePath(k)),
                  then |-> AfterStage(raised, next)])
    /\ scene' = IF StagePath(k) \in DOMAIN res.dir THEN k ELSE scene
    /\ UNCHANGED <<pc, base, resp, produced, last, served, nreq, cleanup_resp>>

\* run_blender("02_smart_rig.py", input, json, output)
CallRigging(bind_ok, exc) ==
    /\ Len(runs) < MaxRuns
    /\ LET k == Len(runs) + 1
           res == smart_rig(files, StagePath(scene), StageJson, StagePath(k), bind_ok, exc)
       IN  StageCall("rigging", k, res, run_blender(res), "Rigged")

\* run_blender("03_face_setup.py", input, json, output)
CallFaceSetup(exc) ==
    /\ Len(runs) < MaxRuns
    /\ LET k == Len(runs) + 1
           res == face_setup(files, StagePath(scene), StageJson, StagePath(k), exc)
       IN  StageCall("face", k, res, run_blender(res), "FaceReady")

StageInit ==
    /\ \E objs \in StageScenes :
          files = WriteFile(WriteFile(<<>>, StageJson, JsonFile), StagePath(0), GlbFile(objs))
    /\ pc = "Idle"
    /\ base = <<>>
    /\ resp = NoResponse
    /\ produced = {}
    /\ last = NoEntry
    /\ served = {}
    /\ nreq = 0
    /\ cleanup_resp = "none"
    /\ scene = 0
    /\ runs = <<>>

StageNext ==
    \/ \E bind_ok \in BOOLEAN, exc \in PythonExitCodes : CallRigging(bind_ok, exc)
    \/ \E exc \in PythonExitCodes : CallFaceSetup(exc)

StageSpec == StageInit /\ [][StageNext]_vars

(***************************************************************************)
(* Properties of the server (specification Spec).                          *)
(***************************************************************************)
InFlight == {"Uploaded", "Rendered", "Analyzed", "Rigged", "FaceReady", "Exported"}

\* the stage whose zero exit brings the request to a state
StageBefore(state) ==
    CASE state = "Rendered" -> "render"
      [] state = "Analyzed" -> "vision"
      [] state = "Rigged" -> "rigging"
      [] state = "FaceReady" -> "face"
      [] state = "Exported" -> "export"
      [] OTHER -> "none"

\* the state a request must be in for a stage to be started
StateBefore(state) ==
    CASE state = "Rendered" -> "Uploaded"
      [] state = "Analyzed" -> "Rendered"
      [] state = "Rigged" -> "Analyzed"
      [] state = "FaceReady" -> "Rigged"
      [] state = "Exported" -> "FaceReady"
      [] state = "Success" -> "Exported"
      [] OTHER -> "none"

SequentialStep ==
    /\ pc' # pc =>
          \/ pc' = "Uploaded" /\ Quiescent
          \/ pc' \in {"Rendered", "Analyzed", "Rigged", "FaceReady", "Exported"}
             /\ pc = StateBefore(pc')
             /\ last'.stage = StageBefore(pc') /\ last'.code = 0
          \/ pc' = "Success" /\ pc = "Exported"
          \/ pc' = "Failed" /\ pc \in InFlight
    /\ (pc \in InFlight /\ pc # "Exported" /\ pc' # pc /\ last'.code # 0) =>
          /\ pc' = "Failed"
          /\ resp' = ErrorResponse
          /\ last'.stage = StageBefore(CHOOSE st \in InFlight : StateBefore(st) = pc)
    /\ pc = "Failed" => pc' \in {"Failed", "Uploaded"} /\ (pc' = "Failed" => resp' = ErrorResponse)
    /\ resp'.status = "success" => pc' = "Success"

\* C1: the five stages run in the order render, vision, rigging, face-setup,
\* export; a stage is started only from the state reached by a zero exit of
\* the stage before it; a non-zero exit of any stage sends the request to
\* Failed with the error response, after which no stage of that request runs
\* and the request never reports success.
C1_StagesSequential == [][SequentialStep]_vars

\* C1 witness: the vision stage has exited non-zero and the request has failed
C1_Witness ==
    pc = "Failed" /\ last.stage = "vision" /\ last.code # 0 /\ resp = ErrorResponse

\* C2: no stage overwrites, renames or removes a path that the upload or an
\* earlier stage of the same request produced.
C2_ArtifactsImmutable ==
    pc \in InFlight => (last.writes \cup last.removes) \cap produced = {}

CheckStep ==
    (pc = "Exported" /\ pc' # pc) =>
        IF final_vrm(base) \in DOMAIN files
        THEN pc' = "Success" /\ resp' = SuccessResponse(base)
        ELSE pc' = "Failed" /\ resp' = ErrorResponse

SuccessStep ==
    (resp'.status = "success" /\ resp.status # "success") =>
        /\ pc = "Exported" /\ last.stage = "export" /\ last.code = 0
        /\ final_vrm(base) \in DOMAIN files
        /\ resp'.vrm_filename = final_vrm(base)

\* C3: the success response is returned only when the final file B.vrm
\* exists at the check made after the export stage exited with code zero; when
\* the file is absent at that check the request fails with the error response.
C3_SuccessNeedsFinalFile == [][CheckStep /\ SuccessStep]_vars

\* C3 witness: all stages exited zero, the file was absent at the check, and
\* the request failed
C3_Witness ==
    pc = "Failed" /\ last.stage = "check" /\ final_vrm(base) \notin DOMAIN files

\* C4: a request touches no path of the artifact set of a request with a
\* different base name.
C4_RequestsIndependent ==
    \A B \in served :
        B # base => (last.reads \cup last.writes \cup last.removes) \cap ArtifactSet(B) = {}

CleanupAfterSuccess ==
    \A filename \in CleanupNames :
        (pc = "Success" /\ filename = resp.vrm_filename /\ cleanup_file(filename)) =>
            /\ ArtifactSet(base) \cap DOMAIN files' = {}
            /\ cleanup_resp' = "success"

\* C5: after a successful conversion with base name B, the cleanup call for
\* B.vrm leaves no artifact of B in the temp directory and returns success.
C5_CleanupRemovesAll == [][CleanupAfterSuccess]_vars

FallbackStep ==
    \A addon \in {"absent", "throws"}, exc \in PythonExitCodes :
        Export(FALSE, addon, exc) =>
            /\ last'.fallback
            /\ last'.code = 0 =>
                  /\ final_vrm(base) \in DOMAIN files'
                  /\ output_path_glb(final_vrm(base)) \notin DOMAIN files'

\* C9: with the avatar exporter unavailable or throwing, the export stage
\* falls back to the generic export and the rename, and when it exits zero
\* the output exists at B.vrm and nothing is left at the intermediate path.
C9_FallbackOutput == [][FallbackStep]_vars

\* C9 witness: the export stage fell back for a base name whose intermediate
\* path is not the uploaded source, and exited zero
C9_Witness ==
    /\ pc = "Exported" /\ last.stage = "export" /\ last.fallback /\ last.code = 0
    /\ output_path_glb(final_vrm(base)) # input_path(base)

CleanupFrame ==
    \A filename \in CleanupNames :
        cleanup_file(filename) =>
            \A n \in UploadNames :
                stem(n) # stem(filename) =>
                    \A path \in ArtifactSet(stem(n)) \cap DOMAIN files :
                        path \in DOMAIN files' /\ files'[path] = files[path]

\* C10: a cleanup call for base name B leaves every artifact of every other
\* base name present and unchanged.
C10_CleanupOnlyOwnBase == [][CleanupFrame]_vars

(***************************************************************************)
(* Properties of the single stage calls (specification StageSpec).         *)
(***************************************************************************)
\* the shape keys of the mesh a stage works on
Slots(objs) == objs[Min(ObjectsOfType(objs, "MESH"))].keys
HasMesh(objs) == ObjectsOfType(objs, "MESH") # {}

\* C6: on every input scene with a mesh that contains a skeleton the rigging
\* stage adds no skeleton and exports the scene as it was imported.
C6_RiggingIdempotent ==
    \A i \in 1..Len(runs) :
        (runs[i].stage = "rigging" /\ HasMesh(runs[i].input)
                                   /\ NumArmatures(runs[i].input) > 0) =>
            /\ runs[i].code = 0
            /\ runs[i].output = runs[i].input

\* C7: one run of the face-setup stage leaves the mesh with all 14 canonical
\* slots and with every slot it had; a second run on the result leaves exactly
\* the same slots, none created twice.
C7_FaceSetupIdempotent ==
    \A i \in 1..Len(runs) :
        (runs[i].stage = "face" /\ HasMesh(runs[i].input)) =>
            /\ runs[i].code = 0
            /\ Range(vrm_shapes) \subseteq Range(Slots(runs[i].output))
            /\ Range(Slots(runs[i].input)) \subseteq Range(Slots(runs[i].output))
            /\ Cardinality(Range(Slots(runs[i].output))) = Len(Slots(runs[i].output))
            /\ (i > 1 /\ runs[i - 1].stage = "face") =>
                  /\ Slots(runs[i].output) = Slots(runs[i].input)
                  /\ Cardinality(Range(Slots(runs[i].output))) = Len(vrm_shapes)
                        + Cardinality(Range(Slots(runs[i - 1].input)) \ Range(vrm_shapes))

\* C7 witness: the stage ran twice in a row on a mesh that started with some
\* canonical and some other slots
C7_Witness ==
    /\ Len(runs) >= 2
    /\ runs[1].stage = "face" /\ runs[2].stage = "face"
    /\ HasMesh(runs[1].input)
    /\ Range(Slots(runs[1].input)) \cap Range(vrm_shapes) # {}
    /\ Range(Slots(runs[1].input)) \ Range(vrm_shapes) # {}
    /\ runs[2].input = runs[1].output

\* C8: on a scene with zero mesh objects the rigging stage and the face-setup
\* stage exit non-zero and write nothing, and the handler goes to Failed
\* instead of the next stage.
C8_NoMeshFails ==
    \A i \in 1..Len(runs) :
        ~HasMesh(runs[i].input) =>
            /\ runs[i].code # 0
            /\ ~runs[i].wrote
            /\ runs[i].then = "Failed"

\* C8 witness: both stages have been called on a scene without a mesh
C8_Witness ==
    /\ \E i \in 1..Len(runs) : runs[i].stage = "rigging" /\ ~HasMesh(runs[i].input)
    /\ \E i \in 1..Len(runs) : runs[i].stage = "face" /\ ~HasMesh(runs[i].input)

====
